---- MODULE Spec2Model ----
(***************************************************************************)
(* Model of scripts/convert_models.py: main() runs up to three conversion  *)
(* stages (convert_yoloworld, generate_text_embeddings, convert_mobilesam) *)
(* one after the other into an output directory.  Every call into a        *)
(* library (import, model load, export, file move, download, save) is a    *)
(* step whose outcomes are the ones the call can have: it returns, or it   *)
(* raises.  An exception that no try/except of the script catches ends the *)
(* process (pc = "crashed").                                               *)
(***************************************************************************)
EXTENDS Integers, Sequences, FiniteSets, TLC

\* ------------------------------------------------------------------ bounds
\* Number of times the script is run against the same directories.
MaxRuns == 2
\* Longest prompt list handed to the embedding loop in SpecEmbed.
MaxPrompts == 3

\* ------------------------------------------------------------- vocabulary
Stages == {"yolo", "emb", "sam"}
Sizes == {"s", "m", "l"}

\* Prompt strings the embedding loop is exercised with (mixed case, so that
\* two different prompts can share one lower-cased key).
PromptStrings == {"cup", "Cup", "dog"}

\* str.lower() on the prompt strings.
Lower(p) ==
    CASE p = "Cup" -> "cup"
      [] p = "cup" -> "cup"
      [] p = "dog" -> "dog"

\* str.upper() on the model size.
Upper(z) ==
    CASE z = "s" -> "S"
      [] z = "m" -> "M"
      [] z = "l" -> "L"

\* Prompt lists: non-empty, duplicates allowed.
PromptLists == UNION {[1..n -> PromptStrings] : n \in 1..MaxPrompts}

\* The list compiled into generate_text_embeddings (90 distinct lower-case
\* prompts), cut to two of its members.
builtin_prompts == <<"cup", "dog">>

\* ------------------------------------------------------------- file names
\* f"YOLOWorld{model_size.upper()}.mlpackage" under output_dir.
output_name(z) == "YOLOWorld" \o Upper(z) \o ".mlpackage"

\* f"yolov8{model_size}-worldv2.pt"; the export backend writes its package
\* next to the weights under the same stem.
model_name(z) == "yolov8" \o z \o "-worldv2"

\* Where shutil.move puts the source when the destination is an existing
\* directory: inside it, under the source's base name.
nested_name(z) == output_name(z) \o "/" \o model_name(z) \o ".mlpackage"

encoder_name == "MobileSAM_Encoder.mlpackage"

PackageNames ==
    {output_name(z) : z \in Sizes} \cup {nested_name(z) : z \in Sizes}
        \cup {encoder_name}

\* Content of a package path: absent, partially written/removed, or the
\* complete package produced in run `ver`.
Absent == [st |-> "none", ver |-> 0]
Partial == [st |-> "partial", ver |-> 0]
Pkg(r) == [st |-> "complete", ver |-> r]

EmptyTable == [k \in {} |-> <<>>]
NoFile == [st |-> "none", table |-> EmptyTable]

VARIABLES
    pc,          \* position of the process in main() and in the stage it called
    run,         \* number of runs of the script started so far
    args,        \* parsed command line of the current run
    out_dir,     \* package paths under output_dir -> content
    out0,        \* out_dir as it was when the current run started
    te_file,     \* output_dir / "TextEmbeddings.json"
    te0,         \* te_file as it was when the current run started
    exported,    \* the package the export backend left at its own path
    ckpt,        \* mobile_sam.pt in the working directory
    fetch_log,   \* urlretrieve calls made so far: [run, ok]
    prompts,     \* the prompt list of generate_text_embeddings
    idx,         \* position of the for loop in prompts
    embeddings,  \* the dict built by the loop
    calls,       \* stages main() has called in this run, in call order
    returned,    \* stages that have returned to main() in this run
    printed,     \* per stage, the result line it printed last
    summary      \* the closing block main() prints

vars == <<pc, run, args, out_dir, out0, te_file, te0, exported, ckpt, fetch_log,
          prompts, idx, embeddings, calls, returned, printed, summary>>

fsVars == <<out_dir, te_file, exported, ckpt, fetch_log>>
embVars == <<prompts, idx, embeddings>>
runVars == <<run, args, out0, te0, summary>>

\* The text encoder's vector for a prompt: determined by the prompt text.
text_encoder(p) == <<"mean_last_hidden_state", p>>

\* --------------------------------------------------------------- initially
Init ==
    /\ pc = "idle"
    /\ run = 0
    /\ args = [skip_yolo |-> FALSE, skip_embeddings |-> FALSE,
               skip_sam |-> FALSE, yolo_size |-> "s"]
    /\ out_dir = [n \in PackageNames |-> Absent]
    /\ out0 = [n \in PackageNames |-> Absent]
    /\ te_file = NoFile
    /\ te0 = NoFile
    /\ exported = Absent
    /\ ckpt \in {"absent", "complete"}
    /\ fetch_log = <<>>
    /\ prompts = builtin_prompts
    /\ idx = 1
    /\ embeddings = EmptyTable
    /\ calls = <<>>
    /\ returned = {}
    /\ printed = [s \in Stages |-> "none"]
    /\ summary = "none"


\* ------------------------------------------------------------------ main()
\* Mutant of stage_enabled: the MobileSAM block tests the embeddings flag.
stage_enabled_wrong_flag(s) ==
    CASE s = "yolo" -> ~args.skip_yolo
      [] s = "emb" -> ~args.skip_embeddings
      [] s = "sam" -> ~args.skip_embeddings

\* The if-blocks of main(): "if not args.skip_<stage>".
stage_enabled(s) ==
    CASE s = "yolo" -> ~args.skip_yolo
      [] s = "emb" -> ~args.skip_embeddings
      [] s = "sam" -> ~args.skip_sam

\* Mutant of FollowingBlock: the MobileSAM block placed before the
\* embeddings block.
FollowingBlock_swapped(s) ==
    CASE s = "yolo" -> "main_sam"
      [] s = "sam" -> "main_emb"
      [] s = "emb" -> "main_end"

\* The block of main() that follows the block of stage s.
FollowingBlock(s) ==
    CASE s = "yolo" -> "main_emb"
      [] s = "emb" -> "main_sam"
      [] s = "sam" -> "main_end"

\* A stage function prints its result line and returns to main(); main()
\* drops the returned value.
Return(s, line) ==
    /\ printed' = [printed EXCEPT ![s] = line]
    /\ returned' = returned \cup {s}
    /\ pc' = FollowingBlock(s)
    /\ UNCHANGED calls

\* An exception leaves the stage function and main(): the process ends with
\* a traceback.
Raise ==
    /\ pc' = "crashed"
    /\ UNCHANGED <<calls, returned, printed>>

Goto(p) ==
    /\ pc' = p
    /\ UNCHANGED <<calls, returned, printed>>

\* A new process: parse_args, then output_dir.mkdir(parents, exist_ok).
main_parse_args ==
    /\ pc \in {"idle", "done", "crashed", "fatal"}
    /\ run < MaxRuns
    /\ run' = run + 1
    /\ \E sy \in BOOLEAN, se \in BOOLEAN, ss \in BOOLEAN, z \in Sizes :
           args' = [skip_yolo |-> sy, skip_embeddings |-> se,
                    skip_sam |-> ss, yolo_size |-> z]
    /\ \E mkdir_ok \in BOOLEAN :
           pc' = IF mkdir_ok THEN "main_yolo" ELSE "fatal"
    /\ calls' = <<>>
    /\ returned' = {}
    /\ printed' = [s \in Stages |-> "none"]
    /\ summary' = "none"
    /\ out0' = out_dir
    /\ te0' = te_file
    /\ idx' = 1
    /\ embeddings' = EmptyTable
    /\ UNCHANGED <<fsVars, prompts>>

\* One if-block of main(): call the stage function unless it is skipped.
main_block(s, entry) ==
    /\ IF stage_enabled(s)
          THEN /\ pc' = entry
               /\ calls' = Append(calls, s)
          ELSE /\ pc' = FollowingBlock(s)
               /\ UNCHANGED calls
    /\ UNCHANGED <<returned, printed, runVars, fsVars, embVars>>

main_yolo ==
    /\ pc = "main_yolo"
    /\ main_block("yolo", "yolo_import")

main_emb ==
    /\ pc = "main_emb"
    /\ main_block("emb", "emb_import")

main_sam ==
    /\ pc = "main_sam"
    /\ main_block("sam", "sam_import")

\* The closing block: the same lines whatever the stages did.
main_end ==
    /\ pc = "main_end"
    /\ summary' = "Conversion Complete!"
    /\ pc' = "done"
    /\ UNCHANGED <<run, args, out0, te0, calls, returned, printed, fsVars, embVars>>

\* ------------------------------------------------------ convert_yoloworld
\* try: from ultralytics import YOLO / except ImportError: print, return None
yolo_import ==
    /\ pc = "yolo_import"
    /\ \/ Goto("yolo_load")
       \/ Return("yolo", "ERROR: ultralytics not installed")
    /\ UNCHANGED <<runVars, fsVars, embVars>>

\* YOLO(model_name) and model.set_classes(classes), outside any try.
yolo_load ==
    /\ pc = "yolo_load"
    /\ \/ Goto("yolo_export")
       \/ Raise
    /\ UNCHANGED <<runVars, fsVars, embVars>>

\* model.export(...), then "if output_path" and "if Path(output_path).exists()".
yolo_export ==
    /\ pc = "yolo_export"
    /\ \/ /\ Raise
          /\ UNCHANGED exported
       \/ /\ Return("yolo", "Export failed")      \* export returned nothing,
          /\ UNCHANGED exported                   \* or a path that is not there
       \/ /\ exported' = Pkg(run)
          /\ Goto("yolo_rmtree")
    /\ UNCHANGED <<runVars, out_dir, te_file, ckpt, fetch_log, embVars>>

\* shutil.rmtree(path) removes the directory with all it holds.
shutil_rmtree(dir, z) ==
    [dir EXCEPT ![output_name(z)] = Absent, ![nested_name(z)] = Absent]

\* Mutant of yolo_rmtree: the existing destination is not removed.
yolo_rmtree_omitted ==
    /\ pc = "yolo_rmtree"
    /\ Goto("yolo_move")
    /\ UNCHANGED <<runVars, fsVars, embVars>>

\* if dest_path.exists(): shutil.rmtree(dest_path)
yolo_rmtree ==
    /\ pc = "yolo_rmtree"
    /\ IF out_dir[output_name(args.yolo_size)].st # "none"
          THEN \/ /\ out_dir' = shutil_rmtree(out_dir, args.yolo_size)
                  /\ Goto("yolo_move")
               \/ /\ out_dir' \in
                        {out_dir,
                         [out_dir EXCEPT ![output_name(args.yolo_size)] = Partial]}
                  /\ Raise
          ELSE /\ Goto("yolo_move")
               /\ UNCHANGED out_dir
    /\ UNCHANGED <<runVars, te_file, exported, ckpt, fetch_log, embVars>>

\* shutil.move(src, dst): a rename when dst is free; when dst is an existing
\* directory the source is moved inside it.
shutil_move(dir, z, pkg) ==
    IF dir[output_name(z)].st = "none"
       THEN [dir EXCEPT ![output_name(z)] = pkg]
       ELSE [dir EXCEPT ![nested_name(z)] = pkg]

\* shutil.move(output_path, dest_path); print Saved; return dest_path
yolo_move ==
    /\ pc = "yolo_move"
    /\ \/ /\ out_dir' = shutil_move(out_dir, args.yolo_size, exported)
          /\ exported' = Absent
          /\ Return("yolo", "Saved")
       \/ /\ out_dir' \in
                {out_dir,
                 [out_dir EXCEPT ![output_name(args.yolo_size)] = Partial]}
          /\ UNCHANGED exported
          /\ Raise
    /\ UNCHANGED <<runVars, te_file, ckpt, fetch_log, embVars>>


\* ----------------------------------------------- generate_text_embeddings
\* try: import torch; from transformers import ... / except ImportError
emb_import ==
    /\ pc = "emb_import"
    /\ \/ Goto("emb_load")
       \/ Return("emb", "ERROR: transformers not installed")
    /\ UNCHANGED <<runVars, fsVars, embVars>>

\* CLIPTokenizer/CLIPTextModel.from_pretrained, outside any try; embeddings = {}
emb_load ==
    /\ pc = "emb_load"
    /\ \/ /\ Goto("emb_loop")
          /\ embeddings' = EmptyTable
          /\ idx' = 1
       \/ /\ Raise
          /\ UNCHANGED <<embeddings, idx>>
    /\ UNCHANGED <<runVars, fsVars, prompts>>

\* Mutant of embedding_key: the prompt as given.
embedding_key_raw(p) == p

\* The key a prompt is stored under: prompt.lower().
embedding_key(p) == Lower(p)

\* d[k] = v on a dict.
dict_set(d, k, v) ==
    [x \in DOMAIN d \cup {k} |-> IF x = k THEN v ELSE d[x]]

\* Mutant of emb_encode: the table is saved after every prompt.
emb_encode_flushing ==
    /\ pc = "emb_loop"
    /\ idx <= Len(prompts)
    /\ \/ /\ embeddings' = dict_set(embeddings, Lower(prompts[idx]),
                                    text_encoder(prompts[idx]))
          /\ idx' = idx + 1
          /\ te_file' = [st |-> "complete", table |-> embeddings']
          /\ Goto("emb_loop")
       \/ /\ Raise
          /\ UNCHANGED <<embeddings, idx, te_file>>
    /\ UNCHANGED <<runVars, out_dir, exported, ckpt, fetch_log, prompts>>

\* One iteration of "for prompt in prompts": tokenize, encode, store.  The
\* tokenizer or the encoder may raise; nothing in the function catches it.
emb_encode ==
    /\ pc = "emb_loop"
    /\ idx <= Len(prompts)
    /\ \/ /\ embeddings' = dict_set(embeddings, embedding_key(prompts[idx]),
                                    text_encoder(prompts[idx]))
          /\ idx' = idx + 1
          /\ Goto("emb_loop")
       \/ /\ Raise
          /\ UNCHANGED <<embeddings, idx>>
    /\ UNCHANGED <<runVars, fsVars, prompts>>

\* After the loop: open(output_path, "w"); json.dump(embeddings); print; return
emb_write ==
    /\ pc = "emb_loop"
    /\ idx > Len(prompts)
    /\ \/ /\ te_file' = [st |-> "complete", table |-> embeddings]
          /\ Return("emb", "Saved")
       \/ /\ te_file' \in {te_file, [st |-> "partial", table |-> EmptyTable]}
          /\ Raise
    /\ UNCHANGED <<runVars, out_dir, exported, ckpt, fetch_log, embVars>>

\* ------------------------------------------------------ convert_mobilesam
\* Two try/except ImportError blocks, each printing and returning None.
sam_import ==
    /\ pc = "sam_import"
    /\ \/ Goto("sam_ckpt")
       \/ Return("sam", "ERROR: Required packages not installed.")
       \/ Return("sam", "MobileSAM not installed. Skipping...")
    /\ UNCHANGED <<runVars, fsVars, embVars>>

\* Mutant of checkpoint_exists: the local file is not looked for.
checkpoint_exists_unchecked == FALSE

\* checkpoint_path.exists()
checkpoint_exists == ckpt # "absent"

\* if not checkpoint_path.exists(): urllib.request.urlretrieve(url, path)
sam_ckpt ==
    /\ pc = "sam_ckpt"
    /\ IF ~checkpoint_exists
          THEN \/ /\ ckpt' = "complete"
                  /\ fetch_log' = Append(fetch_log, [run |-> run, ok |-> TRUE])
                  /\ Goto("sam_load")
               \/ /\ ckpt' \in {ckpt, "partial"}
                  /\ fetch_log' = Append(fetch_log, [run |-> run, ok |-> FALSE])
                  /\ Raise
          ELSE /\ Goto("sam_load")
               /\ UNCHANGED <<ckpt, fetch_log>>
    /\ UNCHANGED <<runVars, out_dir, te_file, exported, embVars>>

\* sam_model_registry["vit_t"](checkpoint=...), sam.eval(), the wrapper:
\* outside any try.  A truncated checkpoint cannot be loaded.
sam_load ==
    /\ pc = "sam_load"
    /\ \/ /\ ckpt = "complete"
          /\ Goto("sam_convert")
       \/ Raise
    /\ UNCHANGED <<runVars, fsVars, embVars>>

\* try: torch.jit.trace, ct.convert / except Exception: print, return None
sam_convert ==
    /\ pc = "sam_convert"
    /\ \/ Goto("sam_save")
       \/ Return("sam", "Encoder conversion failed")
    /\ UNCHANGED <<runVars, fsVars, embVars>>

\* Still inside the try: encoder_mlmodel.save(str(encoder_path)) writes the
\* package at its final path; then print Saved and return the path.
sam_save ==
    /\ pc = "sam_save"
    /\ \/ /\ out_dir' = [out_dir EXCEPT ![encoder_name] = Pkg(run)]
          /\ Return("sam", "Saved")
       \/ /\ out_dir' \in {out_dir,
                           [out_dir EXCEPT ![encoder_name] = Absent],
                           [out_dir EXCEPT ![encoder_name] = Partial]}
          /\ Return("sam", "Encoder conversion failed")
    /\ UNCHANGED <<runVars, te_file, exported, ckpt, fetch_log, embVars>>

\* ---------------------------------------------------------- specification
Next ==
    \/ main_parse_args
    \/ main_yolo
    \/ main_emb
    \/ main_sam
    \/ main_end
    \/ yolo_import
    \/ yolo_load
    \/ yolo_export
    \/ yolo_rmtree
    \/ yolo_move
    \/ emb_import
    \/ emb_load
    \/ emb_encode
    \/ emb_write
    \/ sam_import
    \/ sam_ckpt
    \/ sam_load
    \/ sam_convert
    \/ sam_save

Spec == Init /\ [][Next]_vars

\* generate_text_embeddings alone, from the moment main() has called it, on
\* any prompt list and over a TextEmbeddings.json that is absent or left by an
\* earlier run.
InitEmbed ==
    /\ pc = "emb_import"
    /\ run = 1
    /\ args = [skip_yolo |-> TRUE, skip_embeddings |-> FALSE,
               skip_sam |-> TRUE, yolo_size |-> "s"]
    /\ out_dir = [n \in PackageNames |-> Absent]
    /\ out0 = out_dir
    /\ te_file \in {NoFile,
                    [st |-> "complete",
                     table |-> [k \in {"dog"} |-> text_encoder("dog")]]}
    /\ te0 = te_file
    /\ exported = Absent
    /\ ckpt = "absent"
    /\ fetch_log = <<>>
    /\ prompts \in PromptLists
    /\ idx = 1
    /\ embeddings = EmptyTable
    /\ calls = <<"emb">>
    /\ returned = {}
    /\ printed = [s \in Stages |-> "none"]
    /\ summary = "none"

NextEmbed ==
    \/ emb_import
    \/ emb_load
    \/ emb_encode
    \/ emb_write

SpecEmbed == InitEmbed /\ [][NextEmbed]_vars


\* ================================================================ claims
Rank(s) == CASE s = "yolo" -> 1 [] s = "emb" -> 2 [] s = "sam" -> 3

Called == {calls[i] : i \in 1..Len(calls)}

\* The stage whose function the process is inside, if any.
InStage(s) ==
    CASE s = "yolo" -> pc \in {"yolo_import", "yolo_load", "yolo_export",
                               "yolo_rmtree", "yolo_move"}
      [] s = "emb" -> pc \in {"emb_import", "emb_load", "emb_loop"}
      [] s = "sam" -> pc \in {"sam_import", "sam_ckpt", "sam_load",
                              "sam_convert", "sam_save"}

\* The skip flag of a stage, read from the command line.
Skipped(s) ==
    CASE s = "yolo" -> args.skip_yolo
      [] s = "emb" -> args.skip_embeddings
      [] s = "sam" -> args.skip_sam

\* The process has ended after reaching the stages (normally or by an
\* uncaught exception).
RunEnded == pc \in {"done", "crashed"}

DetectorNames == {output_name(z) : z \in Sizes} \cup {nested_name(z) : z \in Sizes}

\* What stage s writes is as it was when the run started.
ArtifactsUntouched(s) ==
    CASE s = "yolo" -> \A n \in DetectorNames : out_dir[n] = out0[n]
      [] s = "emb" -> te_file = te0
      [] s = "sam" -> out_dir[encoder_name] = out0[encoder_name]

\* C1 (as claimed): whatever fails inside an enabled stage is caught in the
\* stage, so a run that got to its stages ends at the completion step with
\* every enabled stage called.
C1_FailureContained ==
    RunEnded =>
        /\ pc = "done"
        /\ \A s \in Stages : ~Skipped(s) => s \in Called

\* C2: stages are called in the order detector, embeddings, vision encoder;
\* a stage is called only after every stage called before it has returned;
\* at most one stage is in progress.
C2_StageOrder ==
    /\ \A i, j \in 1..Len(calls) : i < j => Rank(calls[i]) < Rank(calls[j])
    /\ \A i \in 1..Len(calls) : i < Len(calls) => calls[i] \in returned
    /\ \A s \in Stages :
           InStage(s) => s = calls[Len(calls)] /\ s \notin returned
    /\ Cardinality({s \in Called : s \notin returned}) <= 1

C2_Witness ==
    /\ calls = <<"yolo", "emb", "sam">>
    /\ returned = {"yolo", "emb"}
    /\ pc = "sam_save"

\* Position of the process along main(): the block it is at or inside.
MainPos ==
    CASE pc = "main_yolo" \/ InStage("yolo") -> 1
      [] pc = "main_emb" \/ InStage("emb") -> 2
      [] pc = "main_sam" \/ InStage("sam") -> 3
      [] pc = "main_end" -> 4
      [] pc = "done" -> 5
      [] OTHER -> 0

\* C3: a stage whose skip flag is set is never called and none of its
\* artifacts is written (with the detector and the vision encoder skipped, no
\* package path changes); a stage whose flag is not set is called once main()
\* gets to its block, whichever other stages are skipped.
C3_StageDisablement ==
    /\ \A s \in Stages : Skipped(s) => s \notin Called /\ ArtifactsUntouched(s)
    /\ (args.skip_yolo /\ args.skip_sam) => out_dir = out0
    /\ \A s \in Stages :
           (~Skipped(s) /\ MainPos > Rank(s)) => s \in Called /\ s \in returned
    /\ \A s \in Stages :
           (~Skipped(s) /\ pc = "crashed" /\ \A t \in Stages : Rank(t) < Rank(s) => Skipped(t))
               => s \in Called

C3_Witness ==
    /\ args.skip_yolo /\ args.skip_sam /\ ~args.skip_embeddings
    /\ pc = "done"
    /\ run = 2
    /\ out0[encoder_name].st = "complete"
    /\ te_file.st = "complete"
    /\ te0.st = "none"
    /\ calls = <<"emb">>

\* C4 (as claimed): when the detector library cannot be imported, the stage
\* reports it (not as an export failure), no detector artifact is written,
\* and the run still calls the embedding and vision-encoder stages.
C4_MissingDetectorDependency ==
    (printed["yolo"] = "ERROR: ultralytics not installed" /\ RunEnded) =>
        /\ printed["yolo"] # "Export failed"
        /\ ArtifactsUntouched("yolo")
        /\ \A s \in {"emb", "sam"} : ~Skipped(s) => s \in Called

\* The outcome of a stage as the spec names it.
Outcome(s) ==
    IF s \notin Called THEN "Skipped"
    ELSE IF printed[s] = "Saved" THEN "Succeeded"
    ELSE "Failed"

\* C5 (as claimed): the summary of a completed run in which some stage failed
\* or was skipped differs from the summary of a run in which all succeeded.
C5_SummaryDistinguishes ==
    (pc = "done" /\ \E s \in Stages : Outcome(s) # "Succeeded") =>
        summary # "Conversion Complete!"

\* C6 (as claimed): a model-artifact path never holds a partial package, and
\* once no export is in progress a path that held a complete package when the
\* run started still holds a complete one (the old or the new).
C6_NoPartialArtifact ==
    \A n \in {output_name(z) : z \in Sizes} \cup {encoder_name} :
        /\ out_dir[n].st \in {"none", "complete"}
        /\ (RunEnded /\ out0[n].st = "complete") => out_dir[n].st = "complete"

\* C7: after a detector export that succeeded, the output directory holds
\* exactly one artifact for that size, the package of this export: nothing of
\* an earlier export is left at the name, inside it, or at the backend's path.
C7_IdempotentDetectorOutput ==
    ("yolo" \in returned /\ printed["yolo"] = "Saved") =>
        /\ out_dir[output_name(args.yolo_size)] = Pkg(run)
        /\ out_dir[nested_name(args.yolo_size)] = Absent
        /\ exported = Absent

C7_Witness ==
    /\ run = 2
    /\ "yolo" \in returned
    /\ printed["yolo"] = "Saved"
    /\ out0[output_name(args.yolo_size)] = Pkg(1)
    /\ out_dir[output_name(args.yolo_size)] = Pkg(2)

\* The lower-cased prompts of the list, duplicates removed.
PromptKeys == {Lower(prompts[i]) : i \in 1..Len(prompts)}

\* C8: when the loop has run over the whole list, and in the file written
\* from it, the keys are exactly the lower-cased prompts, each with the vector
\* of a prompt that lower-cases to it.
C8_EmbeddingKeySet ==
    /\ (pc = "emb_loop" /\ idx > Len(prompts)) => DOMAIN embeddings = PromptKeys
    /\ printed["emb"] = "Saved" =>
           /\ te_file.st = "complete"
           /\ DOMAIN te_file.table = PromptKeys
           /\ \A k \in DOMAIN te_file.table :
                  \E i \in 1..Len(prompts) :
                      Lower(prompts[i]) = k /\ te_file.table[k] = text_encoder(prompts[i])

C8_Witness ==
    /\ printed["emb"] = "Saved"
    /\ prompts = <<"Cup", "dog", "cup">>
    /\ DOMAIN te_file.table = {"cup", "dog"}

\* C9: TextEmbeddings.json changes only in the step after the loop, when
\* every prompt has been encoded; a step of the loop, failing or not, leaves
\* the file as it was and does not report the stage as saved.
C9_AllOrNothing ==
    [][ /\ te_file' # te_file =>
               pc = "emb_loop" /\ idx > Len(prompts) /\ DOMAIN embeddings = PromptKeys
        /\ (pc = "emb_loop" /\ idx <= Len(prompts)) =>
               te_file' = te_file /\ printed'["emb"] # "Saved"
      ]_vars

C9_Witness ==
    /\ pc = "crashed"
    /\ Len(prompts) = 3
    /\ idx = 2
    /\ DOMAIN embeddings = {Lower(prompts[1])}
    /\ te_file = te0
    /\ te0.st = "complete"

\* C10: the checkpoint is fetched only when it is absent, at most once in a
\* run, and never again after a fetch that succeeded.
C10_FetchIfAbsent ==
    /\ [](/\ \A i, j \in 1..Len(fetch_log) :
                 i < j => fetch_log[i].run < fetch_log[j].run
          /\ \A i \in 1..Len(fetch_log) : fetch_log[i].ok => i = Len(fetch_log))
    /\ [][fetch_log' # fetch_log => ckpt = "absent" /\ pc = "sam_ckpt"]_vars

C10_Witness ==
    /\ run = 2
    /\ pc = "sam_load"
    /\ fetch_log = <<[run |-> 1, ok |-> TRUE]>>
    /\ ckpt = "complete"

====
